---------------------------- MODULE Spec2Model ----------------------------
(***************************************************************************)
(* tibiawiki-sql: the infobox tokenizer (parse_attributes), the mapping    *)
(* of raw attributes to typed records (Parseable.from_article and the      *)
(* record kinds Creature, Item, Key) and the record <-> row persistence    *)
(* contract (Row.insert, Row._get_by_field and the dependent records       *)
(* CreatureDrop and ItemAttribute).                                        *)
(*                                                                         *)
(* Text.  A Python str is modelled as a sequence of text units.  A unit is *)
(* one of the characters the code tells apart ("{", "[", "}", "]", "=",    *)
(* "|", a whitespace character) or a run of other characters written as   *)
(* one TLA+ string ("name", "1000").  The tokenizer appends every          *)
(* character of such a run in the same branch, so scanning the run as one  *)
(* unit gives the buffers the character-wise scan gives.                   *)
(***************************************************************************)
EXTENDS Integers, Sequences, FiniteSets, TLC

VARIABLES
    content,    \* parse_attributes: the text scanned so far (content[0:i])
    scan,       \* parse_attributes: the loop's locals after scanning it
    db,         \* the store: the rows of every table
    call,       \* the last call of the caller: its arguments and its outcome
    inserts,    \* the number of insert calls made on the store
    fetch       \* fetch_spells: the spells list, the loop's locals, the requests

vars == <<content, scan, db, call, inserts, fetch>>

\* fetch_spells has not been called
NoFetch == [pc |-> "none"]

(***************************************************************************)
(* Bounds: the length of the scanned text, the attributes of a generated   *)
(* article, the insert calls on one store, the rows the store has room for.*)
(***************************************************************************)
MaxLen == 7
MaxPairs == 2
MaxInserts == 2
Capacity == 4

Alphabet == {"{", "[", "}", "=", "|", " ", "a"}

(***************************************************************************)
(* str.strip(): whitespace removed at both ends.                           *)
(***************************************************************************)
IsSpace(c) == c \in {" ", "\n", "\t"}

RECURSIVE LStrip(_)
LStrip(s) ==
    IF s = <<>> THEN <<>>
    ELSE IF IsSpace(Head(s)) THEN LStrip(Tail(s)) ELSE s

RECURSIVE RStrip(_)
RStrip(s) ==
    IF s = <<>> THEN <<>>
    ELSE IF IsSpace(s[Len(s)]) THEN RStrip(SubSeq(s, 1, Len(s) - 1)) ELSE s

Strip(s) == RStrip(LStrip(s))

(***************************************************************************)
(* dict: Python dicts keep insertion order, so a dict is a sequence of     *)
(* <<key, value>> pairs with distinct keys; d[k] = v overwrites the value  *)
(* of an existing key in place and appends a new key.                      *)
(***************************************************************************)
EmptyDict == <<>>

DictKeys(d) == {d[i][1] : i \in DOMAIN d}

DictGet(d, k) == d[CHOOSE i \in DOMAIN d : d[i][1] = k][2]

\* A dict assignment that keeps the value a key already has: a faulty
\* variant, which the duplicate-key property has to tell from DictSet
DictSetFirst(d, k, v) ==
    IF k \in {d[i][1] : i \in DOMAIN d} THEN d ELSE Append(d, <<k, v>>)

DictSet(d, k, v) ==
    IF k \in DictKeys(d)
    THEN [i \in DOMAIN d |-> IF d[i][1] = k THEN <<k, v>> ELSE d[i]]
    ELSE Append(d, <<k, v>>)

(***************************************************************************)
(* parse_attributes: the locals before the loop, one iteration of the      *)
(* loop, and the comprehension of the return statement.                    *)
(***************************************************************************)
ScanStart ==
    [attributes |-> EmptyDict, depth |-> 0, parse_value |-> FALSE,
     attribute |-> <<>>, value |-> <<>>]

Capture(st, c) ==
    IF st.parse_value
    THEN [st EXCEPT !.value = Append(@, c)]
    ELSE [st EXCEPT !.attribute = Append(@, c)]

\* Commit without the two strip() calls of lines 42 and 50: a faulty variant,
\* which the trimming property has to tell from Commit
CommitRaw(st) ==
    [st EXCEPT !.attributes = DictSet(@, st.attribute, st.value),
               !.parse_value = FALSE, !.attribute = <<>>, !.value = <<>>]

\* Commit without the reset of the buffers and of the flag (lines 43-45 and
\* 51-53): a faulty variant, which the commit-point property has to tell from
\* Commit
CommitKeep(st) ==
    [st EXCEPT !.attributes = DictSet(@, Strip(st.attribute), Strip(st.value))]

Commit(st) ==
    [st EXCEPT !.attributes = DictSet(@, Strip(st.attribute), Strip(st.value)),
               !.parse_value = FALSE,
               !.attribute = <<>>,
               !.value = <<>>]

\* The loop body with "=" and "|" acting at every depth from 2 on instead of
\* at depth 2 only: a faulty variant, which the nesting property has to tell
\* from ScanChar
ScanCharShallow(st, c) ==
    IF c \in {"{", "["} THEN
        IF st.depth + 1 >= 3 THEN Capture([st EXCEPT !.depth = @ + 1], c)
        ELSE [st EXCEPT !.depth = @ + 1]
    ELSE IF c \in {"}", "]"} THEN
        IF st.depth >= 3 THEN [Capture(st, c) EXCEPT !.depth = @ - 1]
        ELSE IF st.depth = 2 THEN [Commit(st) EXCEPT !.depth = @ - 1]
        ELSE [st EXCEPT !.depth = @ - 1]
    ELSE IF c = "=" /\ st.depth >= 2 THEN [st EXCEPT !.parse_value = TRUE]
    ELSE IF c = "|" /\ st.depth >= 2 THEN Commit(st)
    ELSE Capture(st, c)

ScanChar(st, c) ==
    IF c \in {"{", "["} THEN
        LET up == [st EXCEPT !.depth = @ + 1]
        IN  IF up.depth >= 3 THEN Capture(up, c) ELSE up
    ELSE IF c \in {"}", "]"} THEN
        LET kept == IF st.depth >= 3 THEN Capture(st, c) ELSE st
            done == IF kept.depth = 2 THEN Commit(kept) ELSE kept
        IN  [done EXCEPT !.depth = @ - 1]
    ELSE IF c = "=" /\ st.depth = 2 THEN
        [st EXCEPT !.parse_value = TRUE]
    ELSE IF c = "|" /\ st.depth = 2 THEN
        Commit(st)
    ELSE Capture(st, c)

ScanResult(st) ==
    LET NonEmpty(p) == Strip(p[2]) # <<>>
        kept == SelectSeq(st.attributes, NonEmpty)
    IN  [i \in DOMAIN kept |-> <<kept[i][1], Strip(kept[i][2])>>]

\* The loop `for char in content` over text[lo..hi], run from state st: a
\* left fold of ScanChar.  The fold is evaluated half by half, and the state
\* after the first half is a value before the second half starts (it is the
\* element of a singleton set), so that each state is computed once and the
\* evaluation depth is logarithmic in the length of the text.
RECURSIVE ScanFrom(_, _, _, _)
ScanFrom(st, text, lo, hi) ==
    IF lo > hi THEN st
    ELSE IF lo = hi THEN ScanChar(st, text[lo])
    ELSE LET mid == (lo + hi) \div 2
         IN  CHOOSE done \in { ScanFrom(left, text, mid + 1, hi) :
                                 left \in {ScanFrom(st, text, lo, mid)} } : TRUE

parse_attributes(raw) ==
    CHOOSE result \in { ScanResult(end) :
                          end \in { ScanFrom(ScanStart, text, 1, Len(text)) :
                                      text \in {raw} } } : TRUE

(***************************************************************************)
(* Python values.  A value carries its type, so that True and 1, or 15 and *)
(* "15", are different values that == may or may not equate.               *)
(***************************************************************************)
PyNone == [t |-> "none"]
PyInt(n) == [t |-> "int", v |-> n]
PyFloat(n) == [t |-> "float", v |-> n]
PyBool(b) == [t |-> "bool", v |-> b]
PyStr(s) == [t |-> "str", v |-> s]
PyDict(d) == [t |-> "dict", v |-> d]
PyList(l) == [t |-> "list", v |-> l]

\* bool(x) and the truth test of "if x:"
Truthy(x) ==
    CASE x.t = "none" -> FALSE
      [] x.t = "bool" -> x.v
      [] x.t \in {"int", "float"} -> x.v # 0
      [] OTHER -> x.v # <<>>

\* x == y: numbers compare by value across int, float and bool
NumOf(x) == IF x.t = "bool" THEN (IF x.v THEN 1 ELSE 0) ELSE x.v

PyEq(x, y) ==
    IF x.t \in {"int", "float", "bool"} /\ y.t \in {"int", "float", "bool"}
    THEN NumOf(x) = NumOf(y)
    ELSE x.t = y.t /\ x = y

(***************************************************************************)
(* Text units that are numbers, with the value int() gives them, and       *)
(* str.lower() on the units that have upper-case letters.                  *)
(***************************************************************************)
NumVal == [u \in {"0", "1", "2", "3", "15", "1000", "3940"} |->
             CASE u = "0" -> 0 [] u = "1" -> 1 [] u = "2" -> 2 [] u = "3" -> 3
               [] u = "15" -> 15 [] u = "1000" -> 1000 [] u = "3940" -> 3940]

IsNumeral(u) == u \in DOMAIN NumVal

LowerOf == [u \in {"D", "E", "F", "S", "Yes", "YES", "Fire", "Demon"} |->
              CASE u = "D" -> "d" [] u = "E" -> "e" [] u = "F" -> "f"
                [] u = "S" -> "s" [] u = "Yes" -> "yes" [] u = "YES" -> "yes"
                [] u = "Fire" -> "fire" [] u = "Demon" -> "demon"]

LowerUnit(u) == IF u \in DOMAIN LowerOf THEN LowerOf[u] ELSE u

Lower(s) == [i \in DOMAIN s |-> LowerUnit(s[i])]

Numerals(s) == SelectSeq(s, IsNumeral)

RECURSIVE MaxOf(_)
MaxOf(nums) ==
    IF Len(nums) = 1 THEN NumVal[nums[1]]
    ELSE LET rest == MaxOf(Tail(nums))
         IN  IF NumVal[nums[1]] >= rest THEN NumVal[nums[1]] ELSE rest

(***************************************************************************)
(* The conversion functions of the mapping tables.  int is the builtin,    *)
(* parse_maximum_integer and parse_monster_walks are in creature.py; the   *)
(* others are imported from tibiawikisql.utils.                            *)
(***************************************************************************)
\* int(x) raises ValueError unless x is a number, whitespace around it allowed
IntRaises(x) == ~(Len(Strip(x)) = 1 /\ IsNumeral(Strip(x)[1]))

IntOf(x) == PyInt(NumVal[Strip(x)[1]])

parse_integer(x, default) ==
    IF Numerals(x) = <<>> THEN default ELSE PyInt(NumVal[Numerals(x)[1]])

parse_float(x, default) ==
    IF Numerals(x) = <<>> THEN default ELSE PyFloat(NumVal[Numerals(x)[1]])

parse_boolean(x, default) == PyBool(Lower(Strip(x)) = <<"yes">>)

IsBracket(u) == u \in {"[", "]"}
NotBracket(u) == ~IsBracket(u)

clean_links(x) == PyStr(Strip(SelectSeq(x, NotBracket)))

parse_maximum_integer(x) ==
    IF Numerals(x) = <<>> THEN PyNone ELSE PyInt(MaxOf(Numerals(x)))

Elements ==
    {"physical", "holy", "death", "fire", "ice", "energy", "earth", "poison"}

RECURSIVE WalksFrom(_, _)
WalksFrom(x, i) ==
    IF i > Len(x) THEN <<>>
    ELSE IF x[i] \in Elements /\ i = Len(x) THEN <<x[i]>>
    ELSE IF x[i] \in Elements /\ x[i + 1] = ","
         THEN <<x[i], ",">> \o WalksFrom(x, i + 2)
    ELSE WalksFrom(x, i + 1)

parse_monster_walks(x) ==
    LET found == WalksFrom(Lower(Strip(x)), 1)
    IN  IF found = <<>> THEN PyNone ELSE PyStr(found)

ConvRaises(func, x) == func = "int" /\ IntRaises(x)

Convert(func, x) ==
    CASE func = "identity" -> PyStr(x)
      [] func = "int" -> IntOf(x)
      [] func = "parse_integer" -> parse_integer(x, PyInt(0))
      [] func = "parse_integer_or_none" -> parse_integer(x, PyNone)
      [] func = "parse_float" -> parse_float(x, PyNone)
      [] func = "parse_boolean" -> parse_boolean(x, PyBool(FALSE))
      [] func = "not_parse_boolean" -> PyBool(~parse_boolean(x, PyNone).v)
      [] func = "clean_links" -> clean_links(x)
      [] func = "parse_maximum_integer" -> parse_maximum_integer(x)
      [] func = "parse_monster_walks" -> parse_monster_walks(x)

(***************************************************************************)
(* The table descriptors of tibiawikisql.schema: per table the ordered     *)
(* columns, each with a name, a semantic type and a default.  Boolean      *)
(* columns are declared with both kinds of default, FALSE and null.        *)
(***************************************************************************)
Col(n, ty, d) == [name |-> n, type |-> ty, default |-> d]

CreatureTable ==
    << Col("article_id", "Integer", PyNone), Col("title", "Text", PyNone),
       Col("name", "Text", PyNone), Col("article", "Text", PyNone),
       Col("hitpoints", "Integer", PyNone), Col("experience", "Integer", PyNone),
       Col("armor", "Integer", PyNone), Col("speed", "Integer", PyNone),
       Col("class", "Text", PyNone), Col("type", "Text", PyNone),
       Col("bestiary_class", "Text", PyNone),
       Col("bestiary_level", "Text", PyNone),
       Col("bestiary_occurrence", "Text", PyNone),
       Col("max_damage", "Integer", PyNone),
       Col("summon_cost", "Integer", PyInt(0)),
       Col("convince_cost", "Integer", PyInt(0)),
       Col("illusionable", "Boolean", PyBool(FALSE)),
       Col("pushable", "Boolean", PyBool(FALSE)),
       Col("paralysable", "Boolean", PyNone),
       Col("sees_invisible", "Boolean", PyBool(FALSE)),
       Col("boss", "Boolean", PyBool(FALSE)),
       Col("modifier_physical", "Integer", PyNone),
       Col("modifier_earth", "Integer", PyNone),
       Col("modifier_fire", "Integer", PyNone),
       Col("modifier_ice", "Integer", PyNone),
       Col("modifier_energy", "Integer", PyNone),
       Col("modifier_death", "Integer", PyNone),
       Col("modifier_holy", "Integer", PyNone),
       Col("modifier_drown", "Integer", PyNone),
       Col("modifier_hpdrain", "Integer", PyNone),
       Col("abilities", "Text", PyNone), Col("walks_through", "Text", PyNone),
       Col("walks_around", "Text", PyNone), Col("version", "Text", PyNone),
       Col("image", "Blob", PyNone), Col("timestamp", "Integer", PyNone) >>

CreatureDropTable ==
    << Col("creature_id", "Integer", PyNone), Col("item_id", "Integer", PyNone),
       Col("chance", "Real", PyNone), Col("min", "Integer", PyNone),
       Col("max", "Integer", PyNone) >>

ItemTable ==
    << Col("article_id", "Integer", PyNone), Col("title", "Text", PyNone),
       Col("name", "Text", PyNone), Col("article", "Text", PyNone),
       Col("stackable", "Boolean", PyBool(FALSE)),
       Col("value_sell", "Integer", PyNone), Col("value_buy", "Integer", PyNone),
       Col("weight", "Real", PyNone), Col("class", "Text", PyNone),
       Col("type", "Text", PyNone), Col("flavor_text", "Text", PyNone),
       Col("version", "Text", PyNone), Col("client_id", "Integer", PyNone),
       Col("image", "Blob", PyNone), Col("timestamp", "Integer", PyNone) >>

ItemAttributeTable ==
    << Col("item_id", "Integer", PyNone), Col("name", "Text", PyNone),
       Col("value", "Text", PyNone) >>

ItemKeyTable ==
    << Col("article_id", "Integer", PyNone), Col("title", "Text", PyNone),
       Col("number", "Integer", PyNone), Col("item_id", "Integer", PyNone),
       Col("name", "Text", PyNone), Col("material", "Text", PyNone),
       Col("location", "Text", PyNone), Col("origin", "Text", PyNone),
       Col("notes", "Text", PyNone), Col("version", "Text", PyNone),
       Col("timestamp", "Integer", PyNone) >>

\* class -> __tablename__ and class -> table descriptor (the table= argument)
TableName(cls) ==
    CASE cls = "Creature" -> "creature" [] cls = "CreatureDrop" -> "creature_drop"
      [] cls = "Item" -> "item" [] cls = "ItemAttribute" -> "item_attribute"
      [] cls = "Key" -> "item_key"

Columns(cls) ==
    CASE cls = "Creature" -> CreatureTable [] cls = "CreatureDrop" -> CreatureDropTable
      [] cls = "Item" -> ItemTable [] cls = "ItemAttribute" -> ItemAttributeTable
      [] cls = "Key" -> ItemKeyTable

\* the names of the columns of a table, and the column of a name
ColumnNames(cols) == {cols[i].name : i \in DOMAIN cols}

ColumnNamed(cols, n) == cols[CHOOSE i \in DOMAIN cols : cols[i].name = n]

\* the tables whose article_id is the primary key
HasPrimaryKey(cls) == cls \in {"Creature", "Item", "Key"}

(***************************************************************************)
(* The mapping tables (_map) and marker patterns (_pattern) of the record  *)
(* kinds: raw key -> <<column, conversion function>>.                      *)
(***************************************************************************)
CreatureMap ==
    [k \in {"article", "name", "actualname", "creatureclass", "bestiaryclass",
            "bestiarylevel", "occurrence", "primarytype", "hp", "exp", "armor",
            "speed", "maxdmg", "summon", "convince", "illusionable", "pushable",
            "senseinvis", "paraimmune", "isboss", "physicalDmgMod",
            "earthDmgMod", "fireDmgMod", "iceDmgMod", "energyDmgMod",
            "deathDmgMod", "holyDmgMod", "drownDmgMod", "hpDrainDmgMod",
            "abilities", "walksthrough", "walksaround", "implemented"} |->
       CASE k = "article" -> <<"article", "identity">>
         [] k = "name" -> <<"name", "identity">>
         [] k = "actualname" -> <<"name", "identity">>
         [] k = "creatureclass" -> <<"class", "identity">>
         [] k = "bestiaryclass" -> <<"bestiary_class", "identity">>
         [] k = "bestiarylevel" -> <<"bestiary_level", "identity">>
         [] k = "occurrence" -> <<"bestiary_occurrence", "identity">>
         [] k = "primarytype" -> <<"type", "identity">>
         [] k = "hp" -> <<"hitpoints", "parse_integer_or_none">>
         [] k = "exp" -> <<"experience", "parse_integer_or_none">>
         [] k = "armor" -> <<"armor", "parse_integer_or_none">>
         [] k = "speed" -> <<"speed", "parse_integer_or_none">>
         [] k = "maxdmg" -> <<"max_damage", "parse_maximum_integer">>
         [] k = "summon" -> <<"summon_cost", "parse_integer">>
         [] k = "convince" -> <<"convince_cost", "parse_integer">>
         [] k = "illusionable" -> <<"illusionable", "parse_boolean">>
         [] k = "pushable" -> <<"pushable", "parse_boolean">>
         [] k = "senseinvis" -> <<"sees_invisible", "parse_boolean">>
         [] k = "paraimmune" -> <<"paralysable", "not_parse_boolean">>
         [] k = "isboss" -> <<"boss", "parse_boolean">>
         [] k = "physicalDmgMod" -> <<"modifier_physical", "parse_integer">>
         [] k = "earthDmgMod" -> <<"modifier_earth", "parse_integer">>
         [] k = "fireDmgMod" -> <<"modifier_fire", "parse_integer">>
         [] k = "iceDmgMod" -> <<"modifier_ice", "parse_integer">>
         [] k = "energyDmgMod" -> <<"modifier_energy", "parse_integer">>
         [] k = "deathDmgMod" -> <<"modifier_death", "parse_integer">>
         [] k = "holyDmgMod" -> <<"modifier_holy", "parse_integer">>
         [] k = "drownDmgMod" -> <<"modifier_drown", "parse_integer">>
         [] k = "hpDrainDmgMod" -> <<"modifier_hpdrain", "parse_integer">>
         [] k = "abilities" -> <<"abilities", "clean_links">>
         [] k = "walksthrough" -> <<"walks_through", "parse_monster_walks">>
         [] k = "walksaround" -> <<"walks_around", "parse_monster_walks">>
         [] k = "implemented" -> <<"version", "identity">>]

ItemMap ==
    [k \in {"article", "actualname", "weight", "stackable", "npcvalue",
            "npcprice", "flavortext", "itemclass", "primarytype", "implemented",
            "itemid"} |->
       CASE k = "article" -> <<"article", "identity">>
         [] k = "actualname" -> <<"name", "identity">>
         [] k = "weight" -> <<"weight", "parse_float">>
         [] k = "stackable" -> <<"stackable", "parse_boolean">>
         [] k = "npcvalue" -> <<"value_sell", "parse_integer">>
         [] k = "npcprice" -> <<"value_buy", "parse_integer">>
         [] k = "flavortext" -> <<"flavor_text", "identity">>
         [] k = "itemclass" -> <<"class", "identity">>
         [] k = "primarytype" -> <<"type", "identity">>
         [] k = "implemented" -> <<"version", "identity">>
         [] k = "itemid" -> <<"client_id", "parse_integer">>]

KeyMap ==
    [k \in {"aka", "number", "primarytype", "location", "origin", "shortnotes",
            "implemented"} |->
       CASE k = "aka" -> <<"name", "clean_links">>
         [] k = "number" -> <<"number", "int">>
         [] k = "primarytype" -> <<"material", "identity">>
         [] k = "location" -> <<"location", "clean_links">>
         [] k = "origin" -> <<"origin", "clean_links">>
         [] k = "shortnotes" -> <<"notes", "clean_links">>
         [] k = "implemented" -> <<"version", "identity">>]

\* ItemAttribute._map: attribute name -> raw key, in declaration order
ItemAttributeMap ==
    << <<"level", "levelrequired">>, <<"attack", "attack">>,
       <<"elemental_attack", "elementattack">>, <<"defense", "defense">>,
       <<"defense_modifier", "defensemod">>, <<"armor", "armor">>,
       <<"hands", "hands">>, <<"imbue_slots", "imbueslots">>,
       <<"attack+", "atk_mod">>, <<"hit%+", "hit_mod">>, <<"range", "range">>,
       <<"damage_type", "damagetype">>, <<"damage", "damage">>,
       <<"mana", "mana">>, <<"magic_level", "mlrequired">>,
       <<"words", "words">>, <<"critical_chance", "crithit_ch">>,
       <<"critical%", "critextra_dmg">>, <<"hpleech_chance", "hpleech_ch">>,
       <<"hpleech%", "hpleech_am">>, <<"manaleech_chance", "manaleech_ch">>,
       <<"manaleech%", "manaleech_am">>, <<"volume", "volume">>,
       <<"charges", "charges">>, <<"food_time", "regenseconds">>,
       <<"duration", "duration">> >>

MapOf(cls) ==
    CASE cls = "Creature" -> CreatureMap [] cls = "Item" -> ItemMap
      [] cls = "Key" -> KeyMap

\* "attribute in cls._map": the keys of the tables are single words
InMap(cls, key) == Len(key) = 1 /\ key[1] \in DOMAIN MapOf(cls)

\* _pattern = Infobox[\s_]<Kind>, and _pattern.search(content)
KindWord(cls) ==
    CASE cls = "Creature" -> "Creature" [] cls = "Item" -> "Item"
      [] cls = "Key" -> "Key"

PatternSearch(cls, text) ==
    \E i \in 1..(Len(text) - 2) :
        /\ text[i] = "Infobox"
        /\ IsSpace(text[i + 1]) \/ text[i + 1] = "_"
        /\ text[i + 2] = KindWord(cls)

(***************************************************************************)
(* Objects and call outcomes.  An object has its class and the attributes  *)
(* set on it; a call returns a value or raises.                            *)
(***************************************************************************)
Obj(cls, attrs) == [t |-> "obj", cls |-> cls, attrs |-> attrs]

Returned(val) == [tag |-> "return", val |-> val]
Raised(exc) == [tag |-> "raise", exc |-> exc]

HasAttr(o, n) == n \in DOMAIN o.attrs

\* kwargs.get(name, default)
KwGet(kwargs, n, default) == IF n \in DOMAIN kwargs THEN kwargs[n] ELSE default

KwSet(kwargs, n, val) ==
    [x \in DOMAIN kwargs \cup {n} |-> IF x = n THEN val ELSE kwargs[x]]

(***************************************************************************)
(* Row.__init__: every column of the table becomes an attribute, taken     *)
(* from kwargs or from the column's default, Boolean columns through       *)
(* bool(); raw_attributes is set only when kwargs holds a non-empty one.   *)
(* cols is self.table.columns; named are the attributes a subclass sets    *)
(* from kwargs.get after the base constructor.                             *)
(***************************************************************************)
\* The value of a column without the bool() of line 132: a faulty variant,
\* which the round-trip property has to tell from ColumnValue
ColumnValueRaw(c, kwargs) == KwGet(kwargs, c.name, c.default)

ColumnValue(c, kwargs) ==
    IF c.type = "Boolean"
    THEN PyBool(Truthy(KwGet(kwargs, c.name, c.default)))
    ELSE KwGet(kwargs, c.name, c.default)

InitAttrs(cols, kwargs, named) ==
    [n \in ColumnNames(cols) \cup named
           \cup (IF Truthy(KwGet(kwargs, "raw_attributes", PyNone))
                 THEN {"raw_attributes"} ELSE {}) |->
       IF n \in ColumnNames(cols) THEN ColumnValue(ColumnNamed(cols, n), kwargs)
       ELSE KwGet(kwargs, n, PyNone)]

RowInit(cls, kwargs) == Obj(cls, InitAttrs(Columns(cls), kwargs, {}))

\* CreatureDrop.__init__
CreatureDropInit(kwargs) ==
    Obj("CreatureDrop",
        InitAttrs(CreatureDropTable, kwargs, {"item_name", "creature_name"}))

\* cls(**kwargs)
New(cls, kwargs) ==
    IF cls = "CreatureDrop" THEN CreatureDropInit(kwargs) ELSE RowInit(cls, kwargs)

(***************************************************************************)
(* Parseable.from_article.  article is NoArticle (None) or an Article with *)
(* article_id, title, timestamp and content.  A local of the method that   *)
(* holds the result of a call is the element of a singleton set, so that   *)
(* the call is evaluated once, as the assignment does.                     *)
(***************************************************************************)
NoArticle == [none |-> TRUE]

\* the dict row of lines 104 and 106
StartRow(article) ==
    [n \in {"article_id", "timestamp", "title", "attributes", "raw_attributes"} |->
       CASE n = "article_id" -> article.article_id
         [] n = "timestamp" -> article.timestamp
         [] n = "title" -> article.title
         [] OTHER -> PyDict(EmptyDict)]

\* one iteration of the loop over attributes.items(): the row after it, or
\* the exception of the conversion function
\* The iteration with an unmapped key set as a field of the row instead of
\* stored in raw_attributes: a faulty variant, which the overflow property
\* has to tell from MapStep
MapStepField(cls, attribute, value, row) ==
    IF ~InMap(cls, attribute)
    THEN Returned(KwSet(row, attribute[1], PyStr(value)))
    ELSE IF ConvRaises(MapOf(cls)[attribute[1]][2], value) THEN Raised("ValueError")
    ELSE Returned(KwSet(row, MapOf(cls)[attribute[1]][1],
                        Convert(MapOf(cls)[attribute[1]][2], value)))

MapStep(cls, attribute, value, row) ==
    IF ~InMap(cls, attribute)
    THEN Returned(KwSet(row, "raw_attributes",
                        PyDict(DictSet(row["raw_attributes"].v, attribute, value))))
    ELSE IF ConvRaises(MapOf(cls)[attribute[1]][2], value) THEN Raised("ValueError")
    ELSE Returned(KwSet(row, MapOf(cls)[attribute[1]][1],
                        Convert(MapOf(cls)[attribute[1]][2], value)))

RECURSIVE MapAttributes(_, _, _, _)
MapAttributes(cls, attributes, i, row) ==
    IF i > Len(attributes) THEN Returned(row)
    ELSE CHOOSE out \in
           { IF step.tag = "raise" THEN step
             ELSE MapAttributes(cls, attributes, i + 1, step.val) :
             step \in {MapStep(cls, attributes[i][1], attributes[i][2], row)} } : TRUE

\* cls(**row), unless the loop raised
Construct(cls, mapped) ==
    IF mapped.tag = "raise" THEN mapped ELSE Returned(New(cls, mapped.val))

from_article(cls, article) ==
    IF article = NoArticle \/ ~PatternSearch(cls, article.content)
    THEN Returned(PyNone)
    ELSE CHOOSE out \in
           { Construct(cls, mapped) :
             mapped \in { MapAttributes(cls, attributes, 1, StartRow(article)) :
                          attributes \in {parse_attributes(article.content)} } } : TRUE

(***************************************************************************)
(* creature_loot_pattern.findall (parse_loot) and parse_min_max.           *)
(*   \|{{Loot Item\|(?:([\d?+-]+)\|)?([^}|]+)                              *)
(* An amount is a unit made of the characters [\d?+-]; the amounts of the  *)
(* modelled texts are ranges "a-b".                                        *)
(***************************************************************************)
MinMaxOf == [u \in {"1-3", "0-2"} |->
               CASE u = "1-3" -> <<1, 3>> [] u = "0-2" -> <<0, 2>>]

IsAmount(u) == u \in DOMAIN MinMaxOf

parse_min_max(amounts) == MinMaxOf[amounts]

LootPrefix == <<"|", "{", "{", "Loot", " ", "Item", "|">>

IsNameUnit(u) == u \notin {"}", "|"}

\* the last position of the run of [^}|] units starting at j (j - 1: no unit)
RECURSIVE NameEnd(_, _)
NameEnd(x, j) ==
    IF j <= Len(x) /\ IsNameUnit(x[j]) THEN NameEnd(x, j + 1) ELSE j - 1

\* the match at position i, if any: its groups and the position after it
LootMatch(x, i) ==
    IF i + Len(LootPrefix) > Len(x)
       \/ SubSeq(x, i, i + Len(LootPrefix) - 1) # LootPrefix
    THEN [found |-> FALSE]
    ELSE IF /\ i + Len(LootPrefix) + 1 <= Len(x)
            /\ IsAmount(x[i + Len(LootPrefix)])
            /\ x[i + Len(LootPrefix) + 1] = "|"
            /\ NameEnd(x, i + Len(LootPrefix) + 2) >= i + Len(LootPrefix) + 2
    THEN [found |-> TRUE, amounts |-> <<x[i + Len(LootPrefix)]>>,
          first |-> i + Len(LootPrefix) + 2,
          last |-> NameEnd(x, i + Len(LootPrefix) + 2)]
    ELSE IF NameEnd(x, i + Len(LootPrefix)) >= i + Len(LootPrefix)
    THEN [found |-> TRUE, amounts |-> <<>>, first |-> i + Len(LootPrefix),
          last |-> NameEnd(x, i + Len(LootPrefix))]
    ELSE [found |-> FALSE]

RECURSIVE LootFrom(_, _)
LootFrom(x, i) ==
    IF i > Len(x) THEN <<>>
    ELSE CHOOSE out \in
           { IF m.found
             THEN <<[amounts |-> m.amounts, item |-> SubSeq(x, m.first, m.last)]>>
                  \o LootFrom(x, m.last + 1)
             ELSE LootFrom(x, i + 1) :
             m \in {LootMatch(x, i)} } : TRUE

parse_loot(x) == LootFrom(x, 1)

(***************************************************************************)
(* Creature.from_article and Item.from_article after the call of           *)
(* super().from_article(article), whose outcome is base: the dependent     *)
(* records read from raw_attributes.                                       *)
(***************************************************************************)
\* The range of a drop without the call of parse_min_max: a faulty variant,
\* which the loot property has to tell from LootRange
LootRangeDefault(m) == <<0, 1>>

LootRange(m) ==
    IF m.amounts = <<>> THEN <<0, 1>> ELSE parse_min_max(m.amounts[1])

LootItem(article_id, m) ==
    New("CreatureDrop",
        [n \in {"creature_id", "item_name", "min", "max"} |->
           CASE n = "creature_id" -> article_id
             [] n = "item_name" -> PyStr(m.item)
             [] n = "min" -> PyInt(LootRange(m)[1])
             [] n = "max" -> PyInt(LootRange(m)[2])])

LootItems(creature, loot) ==
    Returned(Obj("Creature",
                 KwSet(creature.attrs, "loot",
                       PyList([i \in DOMAIN loot |->
                                 LootItem(creature.attrs["article_id"], loot[i])]))))

CreatureFromArticle(base) ==
    IF base.tag = "raise" \/ base.val = PyNone THEN base
    ELSE IF ~HasAttr(base.val, "raw_attributes") THEN Raised("AttributeError")
    ELSE IF <<"loot">> \notin DictKeys(base.val.attrs["raw_attributes"].v) THEN base
    ELSE CHOOSE out \in
           { LootItems(base.val, loot) :
             loot \in {parse_loot(DictGet(base.val.attrs["raw_attributes"].v,
                                          <<"loot">>))} } : TRUE

ItemAttributeOf(item_id, raw, entry) ==
    New("ItemAttribute",
        [n \in {"item_id", "name", "value"} |->
           CASE n = "item_id" -> item_id
             [] n = "name" -> PyStr(<<entry[1]>>)
             [] n = "value" -> PyStr(DictGet(raw, <<entry[2]>>))])

\* the entries of ItemAttribute._map whose raw key is in raw_attributes with
\* a non-empty value, in declaration order
PresentAttributes(raw) ==
    LET Present(entry) == /\ <<entry[2]>> \in DictKeys(raw)
                          /\ DictGet(raw, <<entry[2]>>) # <<>>
    IN  SelectSeq(ItemAttributeMap, Present)

ItemAttributes(item, raw, found) ==
    Returned(Obj("Item",
                 KwSet(item.attrs, "attributes",
                       PyList([i \in DOMAIN found |->
                                 ItemAttributeOf(item.attrs["article_id"], raw,
                                                 found[i])]))))

ItemFromArticle(base) ==
    IF base.tag = "raise" \/ base.val = PyNone THEN base
    ELSE IF ~HasAttr(base.val, "raw_attributes") THEN Raised("AttributeError")
    ELSE CHOOSE out \in
           { ItemAttributes(base.val, base.val.attrs["raw_attributes"].v, found) :
             found \in {PresentAttributes(base.val.attrs["raw_attributes"].v)} } : TRUE

\* cls.from_article(article), by the class's method resolution
Overridden(cls, base) ==
    CASE cls = "Creature" -> CreatureFromArticle(base)
      [] cls = "Item" -> ItemFromArticle(base)
      [] cls = "Key" -> base

FromArticle(cls, article) ==
    CHOOSE out \in { Overridden(cls, base) :
                     base \in {from_article(cls, article)} } : TRUE

(***************************************************************************)
(* The store: per table the rows in insertion order, a row giving every    *)
(* column a value (None is NULL).  sqlite3 stores a Python bool as 0 or 1. *)
(***************************************************************************)
Tables == {"creature", "creature_drop", "item", "item_attribute", "item_key"}

EmptyStore == [tb \in Tables |-> <<>>]

Adapt(x) == IF x.t = "bool" THEN PyInt(NumOf(x)) ELSE x

\* the outcome of a statement or of an insert method: the store, the outcome
\* and the statements issued on the connection, in order
Done(store) == [db |-> store, out |-> Returned(PyNone), stmts |-> <<>>]
Failed(store, exc) == [db |-> store, out |-> Raised(exc), stmts |-> <<>>]

\* a statement: the table and the columns it names, with the values bound
Statement(cls, values) == [table |-> TableName(cls), cols |-> values]

\* res, reached after the statements stmts were issued
After(stmts, res) == [res EXCEPT !.stmts = stmts \o @]

\* INSERT INTO <table>(<the columns of values>) VALUES(...): the columns not
\* named take the column default; a second row with a primary key fails
StoredRow(cols, values) ==
    [n \in ColumnNames(cols) |->
       IF n \in DOMAIN values THEN Adapt(values[n])
       ELSE Adapt(ColumnNamed(cols, n).default)]

Taken(rows, cls, row) ==
    /\ HasPrimaryKey(cls)
    /\ \E i \in DOMAIN rows : rows[i]["article_id"] = row["article_id"]

\* the rows of all tables; the storage holds Capacity rows and a statement
\* that needs room for one more fails ("database or disk is full")
Rows(store) ==
    Len(store["creature"]) + Len(store["creature_drop"]) + Len(store["item"])
    + Len(store["item_attribute"]) + Len(store["item_key"])

Full(store) == Rows(store) >= Capacity

AppendRow(store, cls, row) ==
    IF Taken(store[TableName(cls)], cls, row) THEN Failed(store, "IntegrityError")
    ELSE IF Full(store) THEN Failed(store, "OperationalError")
    ELSE Done([store EXCEPT ![TableName(cls)] = Append(@, row)])

InsertRow(store, cls, values) ==
    CHOOSE out \in { After(<<Statement(cls, values)>>, AppendRow(store, cls, row)) :
                     row \in {StoredRow(Columns(cls), values)} } : TRUE

\* The sub-select comparing the name column instead of the title: a faulty
\* variant, which the name-resolution property has to tell from ItemIdByTitle
ItemIdByName(store, title) ==
    LET Named(r) == title.t = "str" /\ r["name"] = title
    IN  IF SelectSeq(store["item"], Named) = <<>> THEN PyNone
        ELSE SelectSeq(store["item"], Named)[1]["article_id"]

\* (SELECT article_id FROM item WHERE title = ?): NULL when no row matches
ItemIdByTitle(store, title) ==
    LET Titled(r) == title.t = "str" /\ r["title"] = title
    IN  IF SelectSeq(store["item"], Titled) = <<>> THEN PyNone
        ELSE SelectSeq(store["item"], Titled)[1]["article_id"]

(***************************************************************************)
(* Row.insert and the insert methods of the record kinds.                  *)
(***************************************************************************)
\* The columns Row.insert passes without the comparison with the default: a
\* faulty variant, which the written-columns property has to tell from Written
WrittenAll(cols, o) == {n \in ColumnNames(cols) : HasAttr(o, n)}

\* the columns Row.insert passes: the attributes set that differ from the default
Written(cols, o) ==
    {n \in ColumnNames(cols) :
       HasAttr(o, n) /\ ~PyEq(o.attrs[n], ColumnNamed(cols, n).default)}

RowInsert(store, o) ==
    InsertRow(store, o.cls, [n \in Written(Columns(o.cls), o) |-> o.attrs[n]])

GetAttr(o, n, default) == IF HasAttr(o, n) THEN o.attrs[n] ELSE default

CreatureDropInsert(store, o) ==
    IF Truthy(GetAttr(o, "item_id", PyNone)) THEN RowInsert(store, o)
    ELSE InsertRow(store, "CreatureDrop",
             [n \in {"creature_id", "item_id", "min", "max"} |->
                IF n = "item_id" THEN ItemIdByTitle(store, o.attrs["item_name"])
                ELSE o.attrs[n]])

ItemAttributeInsert(store, o) ==
    InsertRow(store, "ItemAttribute",
        [n \in {"item_id", "name", "value"} |-> o.attrs[n]])

KeyInsert(store, o) ==
    IF Truthy(GetAttr(o, "item_id", PyNone)) THEN RowInsert(store, o)
    ELSE IF o.attrs["material"].t # "str" THEN Failed(store, "TypeError")
    ELSE InsertRow(store, "Key",
             [n \in {"article_id", "title", "number", "item_id", "name",
                     "material", "location", "origin", "notes", "version",
                     "timestamp"} |->
                IF n = "item_id"
                THEN ItemIdByTitle(store,
                         PyStr(o.attrs["material"].v \o <<" ", "Key">>))
                ELSE o.attrs[n]])

\* attribute.insert(c) of a dependent record
ChildInsert(store, child) ==
    IF child.cls = "CreatureDrop" THEN CreatureDropInsert(store, child)
    ELSE ItemAttributeInsert(store, child)

\* "for attribute in <list>: attribute.insert(c)", stopping at the first raise
RECURSIVE InsertEach(_, _, _)
InsertEach(store, children, i) ==
    IF i > Len(children) THEN Done(store)
    ELSE CHOOSE out \in
           { IF one.out.tag = "raise" THEN one
             ELSE After(one.stmts, InsertEach(one.db, children, i + 1)) :
             one \in {ChildInsert(store, children[i])} } : TRUE

\* The dependents inserted before the parent row: a faulty variant, which the
\* ordering property has to tell from ParentInsert
ChildrenFirst(store, o, list) ==
    CHOOSE out \in
      { IF children.out.tag = "raise" THEN children
        ELSE After(children.stmts, RowInsert(children.db, o)) :
        children \in {InsertEach(store, GetAttr(o, list, PyList(<<>>)).v, 1)} } : TRUE

\* super().insert(c), then the dependents of the attribute named list
ParentInsert(store, o, list) ==
    CHOOSE out \in
      { IF parent.out.tag = "raise" THEN parent
        ELSE After(parent.stmts,
                   InsertEach(parent.db, GetAttr(o, list, PyList(<<>>)).v, 1)) :
        parent \in {RowInsert(store, o)} } : TRUE

CreatureInsert(store, o) == ParentInsert(store, o, "loot")

ItemInsert(store, o) == ParentInsert(store, o, "attributes")

\* o.insert(c), by the class's method resolution
InsertObj(store, o) ==
    CASE o.cls = "Creature" -> CreatureInsert(store, o)
      [] o.cls = "Item" -> ItemInsert(store, o)
      [] o.cls = "Key" -> KeyInsert(store, o)
      [] o.cls = "CreatureDrop" -> CreatureDropInsert(store, o)
      [] o.cls = "ItemAttribute" -> ItemAttributeInsert(store, o)

(***************************************************************************)
(* SQL comparison.  "=" never matches NULL and compares text exactly; LIKE *)
(* takes the bound value as the pattern: "%" stands for any run of         *)
(* characters, "_" for one character, and letters match without case.      *)
(***************************************************************************)
RECURSIVE LikeMatch(_, _)
LikeMatch(pattern, text) ==
    IF pattern = <<>> THEN text = <<>>
    ELSE IF pattern[1] = "%"
         THEN \/ LikeMatch(Tail(pattern), text)
              \/ text # <<>> /\ LikeMatch(pattern, Tail(text))
    ELSE /\ text # <<>>
         /\ pattern[1] = "_" \/ LowerUnit(pattern[1]) = LowerUnit(text[1])
         /\ LikeMatch(Tail(pattern), Tail(text))

\* The comparison with "=" in both modes: a faulty variant, which the
\* partial-match property has to tell from SqlMatches
SqlMatchesExact(stored, value, use_like) ==
    IF stored.t = "none" \/ value.t = "none" THEN FALSE
    ELSE stored.t = value.t /\ stored = value

SqlMatches(stored, value, use_like) ==
    IF stored.t = "none" \/ value.t = "none" THEN FALSE
    ELSE IF use_like /\ stored.t = "str" /\ value.t = "str"
         THEN LikeMatch(value.v, stored.v)
    ELSE stored.t = value.t /\ stored = value

\* SELECT ... WHERE <field> <operator> ?: the rows that match, in order
Where(rows, field, value, use_like) ==
    LET Matching(r) == SqlMatches(r[field], value, use_like)
    IN  SelectSeq(rows, Matching)

(***************************************************************************)
(* Row.from_row and Row._get_by_field; the _get_all_by_field of the        *)
(* dependent records; the _get_by_field of Creature and Item.              *)
(***************************************************************************)
from_row(cls, row) == New(cls, row)

\* A read that returns a record only when a single row matches: a faulty
\* variant, which the at-most-one property has to tell from FetchOne
FetchOnly(cls, rows) == IF Len(rows) # 1 THEN PyNone ELSE from_row(cls, rows[1])

\* fetchone() of a LIMIT 1 query, then from_row
FetchOne(cls, rows) == IF rows = <<>> THEN PyNone ELSE from_row(cls, rows[1])

RowGetByField(store, cls, field, value, use_like) ==
    CHOOSE out \in
      { FetchOne(cls, rows) :
        rows \in {Where(store[TableName(cls)], field, value, use_like)} } : TRUE

\* fetchall(), then from_row of every row
FetchAll(cls, rows) == [i \in DOMAIN rows |-> from_row(cls, rows[i])]

\* <rows> LEFT JOIN <table> ON <table>.article_id = <key column>: every row
\* once per matching row of the table, or once with NULLs when none matches
JoinOn(others, r, key) ==
    LET On(x) == r[key].t # "none" /\ x["article_id"] = r[key]
    IN  SelectSeq(others, On)

\* The inner join, which drops a row without a match: a faulty variant, which
\* the cascade property has to tell from JoinRow
JoinRowInner(r, found, alias) ==
    [i \in DOMAIN found |-> KwSet(r, alias, found[i]["name"])]

JoinRow(r, found, alias) ==
    IF found = <<>> THEN <<KwSet(r, alias, PyNone)>>
    ELSE [i \in DOMAIN found |-> KwSet(r, alias, found[i]["name"])]

RECURSIVE LeftJoin(_, _, _, _)
LeftJoin(rows, others, key, alias) ==
    IF rows = <<>> THEN <<>>
    ELSE JoinRow(rows[1], JoinOn(others, rows[1], key), alias)
         \o LeftJoin(Tail(rows), others, key, alias)

CreatureDropGetAllByField(store, field, value, use_like) ==
    CHOOSE out \in
      { FetchAll("CreatureDrop", rows) :
        rows \in {Where(LeftJoin(LeftJoin(store["creature_drop"], store["creature"],
                                          "creature_id", "creature_name"),
                                 store["item"], "item_id", "item_name"),
                        field, value, use_like)} } : TRUE

ItemAttributeGetAllByField(store, field, value, use_like) ==
    CHOOSE out \in
      { FetchAll("ItemAttribute", rows) :
        rows \in {Where(store["item_attribute"], field, value, use_like)} } : TRUE

\* Creature._get_by_field and Item._get_by_field after the call of
\* super()._get_by_field, whose result is creature or item
CreatureGetByField(store, creature) ==
    IF creature = PyNone THEN PyNone
    ELSE Obj("Creature",
             KwSet(creature.attrs, "loot",
                   PyList(CreatureDropGetAllByField(store, "creature_id",
                              creature.attrs["article_id"], FALSE))))

ItemGetByField(store, item) ==
    IF item = PyNone THEN PyNone
    ELSE Obj("Item",
             KwSet(KwSet(item.attrs, "attributes",
                         PyList(ItemAttributeGetAllByField(store, "item_id",
                                    item.attrs["article_id"], FALSE))),
                   "dropped_by",
                   PyList(CreatureDropGetAllByField(store, "item_id",
                              item.attrs["article_id"], FALSE))))

Related(store, cls, found) ==
    CASE cls = "Creature" -> CreatureGetByField(store, found)
      [] cls = "Item" -> ItemGetByField(store, found)
      [] cls = "Key" -> found

\* cls._get_by_field(c, field, value, use_like), by the class's method resolution
GetByField(store, cls, field, value, use_like) ==
    CHOOSE out \in
      { Related(store, cls, found) :
        found \in {RowGetByField(store, cls, field, value, use_like)} } : TRUE

(***************************************************************************)
(* The tokenizer specification: the scanned text grows by one character    *)
(* per step and scan holds the loop's locals after it, so every text of at *)
(* most MaxLen characters over Alphabet is scanned, prefix by prefix.      *)
(***************************************************************************)
NoCall == [op |-> "none"]

TokInit ==
    /\ content = <<>>
    /\ scan = ScanStart
    /\ db = EmptyStore
    /\ call = NoCall
    /\ inserts = 0
    /\ fetch = NoFetch

ScanStep(c) ==
    /\ Len(content) < MaxLen
    /\ content' = Append(content, c)
    /\ scan' = ScanChar(scan, c)
    /\ UNCHANGED <<db, call, inserts, fetch>>

TokNext == \E c \in Alphabet : ScanStep(c)

SpecTok == TokInit /\ [][TokNext]_vars

\* a text without whitespace at either end
Trimmed(s) == s = <<>> \/ (~IsSpace(s[1]) /\ ~IsSpace(s[Len(s)]))

\* C2: for every input text, every key and every value of the map returned
\* by parse_attributes has no leading or trailing whitespace, and no value of
\* the map is the empty string.  scan holds the loop's locals after content,
\* so ScanResult(scan) is the map returned for content.
C2_TrimmedNonEmpty ==
    \A i \in DOMAIN ScanResult(scan) :
        /\ Trimmed(ScanResult(scan)[i][1])
        /\ Trimmed(ScanResult(scan)[i][2])
        /\ ScanResult(scan)[i][2] # <<>>

\* "{{ a=a|": the key is written with a leading blank and is returned trimmed
C2_Witness ==
    /\ content = <<"{", "{", " ", "a", "=", "a", "|">>
    /\ ScanResult(scan) = << <<<<"a">>, <<"a">>>> >>

\* the character c belongs to a nested construct: it is read at depth 3 or
\* more, or it is the bracket that raises the depth from 2 or more
InNested(st, c) == st.depth >= 3 \/ (c \in {"{", "["} /\ st.depth >= 2)

\* C3: while a value is captured, every character of a bracketed construct
\* that raises the depth to 3 or more (its brackets, and any "=" and "|"
\* inside it) is appended to the value verbatim and in order, and the pair is
\* neither split nor terminated there: the committed pairs, the key and the
\* parsing-value flag stay as they are.
C3_NestedVerbatim ==
    [][ (/\ Len(content') = Len(content) + 1
         /\ scan.parse_value
         /\ InNested(scan, content'[Len(content')]))
        => /\ scan'.value = Append(scan.value, content'[Len(content')])
           /\ scan'.attributes = scan.attributes
           /\ scan'.attribute = scan.attribute
           /\ scan'.parse_value ]_vars

\* "{{={=|}": the construct "{=|}" is read inside a value and is its content
C3_Witness ==
    /\ content = <<"{", "{", "=", "{", "=", "|", "}">>
    /\ scan.depth = 2
    /\ scan.parse_value
    /\ scan.value = <<"{", "=", "|", "}">>
    /\ scan.attributes = EmptyDict

\* the loop's locals with nothing pending
NothingPending(st) ==
    [st EXCEPT !.attribute = <<>>, !.value = <<>>, !.parse_value = FALSE]

\* the character c is read at a commit point
CommitPoint(st, c) == c \in {"|", "}", "]"} /\ st.depth = 2

\* C15: the committed pairs change only when a "|" or a closing bracket is
\* read at depth exactly 2; there the pending key and value are committed,
\* stripped, and both buffers and the parsing-value flag are reset; the map
\* returned at any end of the scan is made of the committed pairs only, so a
\* pair that is pending when the scan ends is not in it.
C15_CommitPoints ==
    [][ Len(content') = Len(content) + 1
        => /\ IF CommitPoint(scan, content'[Len(content')])
              THEN /\ scan'.attributes
                        = DictSet(scan.attributes, Strip(scan.attribute),
                                  Strip(scan.value))
                   /\ scan'.attribute = <<>>
                   /\ scan'.value = <<>>
                   /\ ~scan'.parse_value
              ELSE scan'.attributes = scan.attributes
           /\ ScanResult(scan') = ScanResult(NothingPending(scan')) ]_vars

\* "{{|a=a": the empty pair before the "|" is committed there; the pair a=a
\* is pending when the text ends and the returned map does not hold it
C15_Witness ==
    /\ content = <<"{", "{", "|", "a", "=", "a">>
    /\ scan.attributes = << <<<<>>, <<>>>> >>
    /\ scan.attribute = <<"a">>
    /\ scan.value = <<"a">>
    /\ scan.parse_value
    /\ ScanResult(scan) = EmptyDict

\* the pairs committed while text is read from position i on with the loop's
\* locals st, in the order of their commits: at every commit point the
\* stripped pending key and the stripped pending value
RECURSIVE CommitsIn(_, _, _)
CommitsIn(st, text, i) ==
    IF i > Len(text) THEN <<>>
    ELSE (IF CommitPoint(st, text[i])
          THEN << <<Strip(st.attribute), Strip(st.value)>> >>
          ELSE <<>>)
         \o CommitsIn(ScanChar(st, text[i]), text, i + 1)

\* the value of the last commit of key k in the commits cs
LastCommitted(cs, k) ==
    cs[CHOOSE j \in DOMAIN cs :
          /\ cs[j][1] = k
          /\ \A l \in DOMAIN cs : l > j => cs[l][1] # k][2]

\* the returned map d holds, for every key of the commits cs, the value of
\* the key's last commit, or not the key when that value is empty, and no
\* other key
HoldsLastCommits(d, cs) ==
    /\ DictKeys(d) \subseteq {cs[j][1] : j \in DOMAIN cs}
    /\ \A j \in DOMAIN cs :
          IF LastCommitted(cs, cs[j][1]) = <<>>
          THEN cs[j][1] \notin DictKeys(d)
          ELSE /\ cs[j][1] \in DictKeys(d)
               /\ DictGet(d, cs[j][1]) = LastCommitted(cs, cs[j][1])

\* C20: when the same trimmed key is committed more than once in one scan,
\* the returned map holds the value of the key's last commit; when the last
\* commit of the key has an empty value the key is absent from the returned
\* map, even though an earlier commit of it had a non-empty value.
C20_LastCommitWins ==
    HoldsLastCommits(ScanResult(scan), CommitsIn(ScanStart, content, 1))

\* "{{=a||": the empty key is committed with the value a at the first "|"
\* and with the empty value at the second; the returned map is empty
C20_Witness ==
    /\ content = <<"{", "{", "=", "a", "|", "|">>
    /\ CommitsIn(ScanStart, content, 1)
          = << <<<<>>, <<"a">>>>, <<<<>>, <<>>>> >>
    /\ ScanResult(scan) = EmptyDict

\* the nesting depth at which the character at position j of text is read:
\* the opening brackets before it less the closing brackets before it
DepthBefore(text, j) ==
    Cardinality({i \in 1..(j - 1) : text[i] \in {"{", "["}})
      - Cardinality({i \in 1..(j - 1) : text[i] \in {"}", "]"}})

\* the character at position j of text terminates a pair
Terminates(text, j) ==
    text[j] \in {"|", "}", "]"} /\ DepthBefore(text, j) = 2

\* the position where the pair terminated at position n of text starts: after
\* the terminator before it, or at the start of the text
PairStart(text, n) ==
    IF \E j \in 1..(n - 1) : Terminates(text, j)
    THEN 1 + CHOOSE j \in 1..(n - 1) :
                 /\ Terminates(text, j)
                 /\ \A l \in (j + 1)..(n - 1) : ~Terminates(text, l)
    ELSE 1

\* the positions of the "=" read at depth exactly 2 in the pair terminated at
\* position n of text
Separators(text, n) ==
    {q \in PairStart(text, n)..(n - 1) :
        text[q] = "=" /\ DepthBefore(text, q) = 2}

FirstSeparator(text, n) ==
    CHOOSE q \in Separators(text, n) : \A r \in Separators(text, n) : q <= r

\* the text ends with the terminator of a pair that has a "=" at depth 2
PairEnds(text) ==
    /\ text # <<>>
    /\ Terminates(text, Len(text))
    /\ Separators(text, Len(text)) # {}

\* the value committed last while text is read
LastValue(text) ==
    CommitsIn(ScanStart, text, 1)[Len(CommitsIn(ScanStart, text, 1))][2]

\* C21: only the first "=" at depth exactly 2 of a pair separates key from
\* value: the value committed for the pair is the text between that first
\* "=" and the terminating "|" or closing bracket, trimmed, so that a second
\* "=" at depth 2 is a character of the value.
C21_FirstEqualsSeparates ==
    PairEnds(content) =>
        LastValue(content)
          = Strip(SubSeq(content, FirstSeparator(content, Len(content)) + 1,
                         Len(content) - 1))

\* a pair with one "=" at depth 2 has the text after it as its value
C21_OneSeparator ==
    (PairEnds(content) /\ Cardinality(Separators(content, Len(content))) = 1)
        => C21_FirstEqualsSeparates

\* "{{=a=a|": the value of the pair is written a=a and is committed as aa
C21_SecondEqualsDropped ==
    /\ content = <<"{", "{", "=", "a", "=", "a", "|">>
    /\ PairEnds(content)
    /\ Separators(content, Len(content)) = {3, 5}
    /\ LastValue(content) = <<"a", "a">>
    /\ ScanResult(scan) = << <<<<>>, <<"a", "a">>>> >>

(***************************************************************************)
(* Articles.  An Article carries article_id, title, timestamp and content. *)
(***************************************************************************)
Kinds == {"Creature", "Item", "Key"}

Article(id, title, text) ==
    [article_id |-> PyInt(id), title |-> PyStr(title),
     timestamp |-> PyStr(<<"2018-08-20T04:33:15Z">>), content |-> text]

\* {{Infobox <marker>|key=value|...}}
RECURSIVE PairsText(_)
PairsText(pairs) ==
    IF pairs = <<>> THEN <<>>
    ELSE <<"|", pairs[1][1], "=">> \o pairs[1][2] \o PairsText(Tail(pairs))

Block(marker, pairs) ==
    <<"{", "{", "Infobox", " ", marker>> \o PairsText(pairs) \o <<"}", "}">>

LootItemText(amount, item) ==
    <<"|", "{", "{", "Loot", " ", "Item", "|">> \o amount \o item \o <<"}", "}">>

LootTable(entries) == <<"{", "{", "Loot", " ", "Table">> \o entries \o <<"}", "}">>

CallFromArticle(cls, article) ==
    [op |-> "from_article", cls |-> cls, article |-> article,
     out |-> FromArticle(cls, article)]

(***************************************************************************)
(* The construction specification: from_article is called on no article,   *)
(* on texts without an infobox block and on infobox blocks of every marker *)
(* that hold up to MaxPairs attributes of RecPairs, in every order.        *)
(***************************************************************************)
RecPairs ==
    { <<"name", <<"Demon">>>>, <<"hp", <<"1000">>>>, <<"hp", <<"abc">>>>,
      <<"number", <<"3940">>>>, <<"number", <<"abc">>>>,
      <<"paraimmune", <<"yes">>>>, <<"maxdmg", <<"abc">>>>,
      <<"attack", <<"15">>>>, <<"foo", <<"abc">>>>,
      <<"loot", LootTable(LootItemText(<<"1-3", "|">>, <<"Fire", " ", "Sword">>))>>,
      <<"loot", LootTable(LootItemText(<<>>, <<"Gold">>)
                          \o LootItemText(<<"0-2", "|">>, <<"Fire", " ", "Sword">>))>> }

RecMarkers == {"Creature", "Item", "Key", "Spell"}

RecTexts == { <<>>, <<"text">>, <<"Infobox", " ", "Creature">> }

\* an infobox block followed by text and by a second template block
RecTwoBlocks(marker) ==
    Block(marker, <<>>) \o <<" ", "text", " ">> \o <<"{", "{", "Navbox", "}", "}">>

\* the creature Demon with four mapped attributes and one loot item
RecDemon ==
    Block("Creature",
          << <<"name", <<"Demon">>>>, <<"hp", <<"1000">>>>, <<"armor", <<"15">>>>,
             <<"paraimmune", <<"yes">>>>,
             <<"loot", LootTable(LootItemText(<<"1-3", "|">>,
                                              <<"Fire", " ", "Sword">>))>> >>)

RecInit ==
    /\ content = <<>>
    /\ scan = ScanStart
    /\ db = EmptyStore
    /\ call = NoCall
    /\ inserts = 0
    /\ fetch = NoFetch

IsEquals(u) == u = "="

IsBlock(text) == Len(text) >= 7 /\ SubSeq(text, 1, 3) = <<"{", "{", "Infobox">>

\* the text with one more attribute before the closing braces of its last block
WithPair(text, pair) ==
    SubSeq(text, 1, Len(text) - 2) \o PairsText(<<pair>>) \o <<"}", "}">>

\* the calls made first, and the calls made after a call on a block
RecFirst ==
    {<<cls, NoArticle>> : cls \in Kinds}
    \cup {<<cls, Article(1, <<"Demon">>, text)>> : cls \in Kinds, text \in RecTexts}
    \cup {<<cls, Article(1, <<"Demon">>, Block(marker, <<>>))>> :
            cls \in Kinds, marker \in RecMarkers}
    \cup {<<cls, Article(1, <<"Demon">>, RecTwoBlocks(cls))>> : cls \in Kinds}
    \cup {<<cls, Article(1, <<"Demon">>, RecDemon)>> : cls \in Kinds}

RecMore(c) ==
    IF c.article # NoArticle /\ IsBlock(c.article.content)
       /\ Len(SelectSeq(c.article.content, IsEquals)) < MaxPairs
    THEN {<<c.cls, [c.article EXCEPT !.content = WithPair(@, pair)]>> :
            pair \in RecPairs}
    ELSE {}

Parse(cls, article) ==
    /\ call' = CallFromArticle(cls, article)
    /\ UNCHANGED <<content, scan, db, inserts, fetch>>

RecNext ==
    \E ca \in IF call = NoCall THEN RecFirst ELSE RecMore(call) : Parse(ca[1], ca[2])

SpecRec == RecInit /\ [][RecNext]_vars

\* the call returned a record (an instance, not None)
ReturnedRecord(c) ==
    c.op = "from_article" /\ c.out.tag = "return" /\ c.out.val # PyNone

\* the raw overflow of a record: empty when the attribute is not set
Overflow(o) ==
    IF HasAttr(o, "raw_attributes") THEN o.attrs["raw_attributes"].v ELSE EmptyDict

\* C6: from_article returns None, and raises nothing, whenever the article
\* is None or its content does not contain the marker of the record kind;
\* when the content contains the marker it returns an instance of the kind.
C6_Gate ==
    call.op = "from_article" =>
        IF call.article = NoArticle \/ ~PatternSearch(call.cls, call.article.content)
        THEN call.out = Returned(PyNone)
        ELSE /\ call.out.tag = "return"
             /\ call.out.val # PyNone
             /\ call.out.val.cls = call.cls

\* C7: a conversion failure is contained: no ValueError of a conversion
\* function leaves from_article.
C7_Contained ==
    call.op = "from_article" =>
        ~(call.out.tag = "raise" /\ call.out.exc = "ValueError")

\* C8: after from_article every tokenized key that is absent from the mapping
\* table is in the raw overflow with its value unchanged, no key of the
\* mapping table is in the raw overflow, and the attributes set on the record
\* are the declared columns of the kind's table, besides the overflow and the
\* list of dependents: a raw key never becomes an attribute.
C8_OverflowPartition ==
    ReturnedRecord(call) =>
        /\ \A i \in DOMAIN parse_attributes(call.article.content) :
              ~InMap(call.cls, parse_attributes(call.article.content)[i][1])
              => /\ parse_attributes(call.article.content)[i][1]
                       \in DictKeys(Overflow(call.out.val))
                 /\ DictGet(Overflow(call.out.val),
                            parse_attributes(call.article.content)[i][1])
                       = parse_attributes(call.article.content)[i][2]
        /\ \A k \in DictKeys(Overflow(call.out.val)) : ~InMap(call.cls, k)
        /\ DOMAIN call.out.val.attrs
              \subseteq ColumnNames(Columns(call.cls))
                        \cup {"raw_attributes", "loot", "attributes"}

\* a Key built from "name=Demon|number=3940": number is mapped and set, name
\* is not in Key._map and stays in the overflow, the column name unset
C8_Witness ==
    /\ ReturnedRecord(call)
    /\ call.cls = "Key"
    /\ call.out.val.attrs["number"] = PyInt(3940)
    /\ call.out.val.attrs["name"] = PyNone
    /\ Overflow(call.out.val) = << <<<<"name">>, <<"Demon">>>> >>


(***************************************************************************)
(* The store specification: records are built from the articles of         *)
(* StoreArticles or constructed as standalone drops, the record a call     *)
(* returned is inserted (at most MaxInserts inserts), and records are read *)
(* back by field.  call holds the last call: its arguments and its         *)
(* outcome; an insert also holds the call that made the record and the     *)
(* store it started from.                                                  *)
(***************************************************************************)
Pair(key, value) == <<key, value>>

StoreArticles ==
    { <<"Creature",
        Article(1, <<"D", "e">>,
                Block("Creature",
                      << Pair("name", <<"D", "e">>),
                         Pair("loot", LootTable(LootItemText(<<"1-3", "|">>, <<"F", "s">>)
                                                \o LootItemText(<<>>, <<"Z">>))) >>))>>,
      <<"Creature",
        Article(2, <<"D", "x">>,
                Block("Creature",
                      << Pair("name", <<"D", "e">>), Pair("isboss", <<"yes">>),
                         Pair("foo", <<"abc">>) >>))>>,
      <<"Item",
        Article(3, <<"F", "s">>,
                Block("Item",
                      << Pair("actualname", <<"F", "s">>), Pair("stackable", <<"yes">>),
                         Pair("attack", <<"15">>), Pair("armor", <<"2">>) >>))>>,
      <<"Item",
        Article(4, <<"Z">>,
                Block("Item",
                      << Pair("actualname", <<"F", "s">>), Pair("foo", <<"abc">>) >>))>>,
      <<"Key",
        Article(5, <<"K">>,
                Block("Key",
                      << Pair("number", <<"3940">>),
                         Pair("primarytype", <<"F", "s">>) >>))>>,
      <<"Key",
        Article(6, <<"K", "x">>, Block("Key", << Pair("number", <<"3940">>) >>))>>,
      <<"Item",
        Article(7, <<"F", "s", " ", "Key">>,
                Block("Item", << Pair("foo", <<"abc">>) >>))>> }

\* the keyword arguments of the drops constructed directly
StoreDrops ==
    { [creature_id |-> PyInt(1), item_name |-> PyStr(<<"F", "s">>),
       min |-> PyInt(0), max |-> PyInt(1)],
      [creature_id |-> PyInt(2), item_id |-> PyInt(3),
       min |-> PyInt(1), max |-> PyInt(3)] }

\* the arguments of the reads: field, value, use_like
StoreReads ==
    {<<"article_id", PyInt(i), FALSE>> : i \in 1..5}
    \cup {<<"name", PyStr(v), like>> :
            v \in {<<"D", "e">>, <<"d", "e">>, <<"d">>, <<"%", "d", "%">>},
            like \in BOOLEAN}

Init ==
    /\ content = <<>>
    /\ scan = ScanStart
    /\ db = EmptyStore
    /\ call = NoCall
    /\ inserts = 0
    /\ fetch = NoFetch

\* cls.from_article(article)
Build(cls, article) ==
    /\ call' = CallFromArticle(cls, article)
    /\ UNCHANGED <<content, scan, db, inserts, fetch>>

\* CreatureDrop(**kwargs)
NewDrop(kwargs) ==
    /\ call' = [op |-> "new", cls |-> "CreatureDrop", kwargs |-> kwargs,
                out |-> Returned(New("CreatureDrop", kwargs))]
    /\ UNCHANGED <<content, scan, db, inserts, fetch>>

\* o.insert(c), o being the record the last call returned
InsertCall(via, before, o, after) ==
    [op |-> "insert", via |-> via, obj |-> o, before |-> before, out |-> after.out,
     stmts |-> after.stmts]

Insert ==
    /\ call.op \in {"from_article", "new", "get_by_field"}
    /\ call.out.tag = "return"
    /\ call.out.val # PyNone
    /\ inserts < MaxInserts
    /\ \E after \in {InsertObj(db, call.out.val)} :
          /\ db' = after.db
          /\ call' = InsertCall(call.op, db, call.out.val, after)
    /\ inserts' = inserts + 1
    /\ UNCHANGED <<content, scan, fetch>>

\* cls._get_by_field(c, field, value, use_like)
Get(cls, field, value, use_like) ==
    /\ call' = [op |-> "get_by_field", cls |-> cls, field |-> field,
                value |-> value, use_like |-> use_like,
                out |-> Returned(GetByField(db, cls, field, value, use_like))]
    /\ UNCHANGED <<content, scan, db, inserts, fetch>>

Next ==
    \/ \E a \in StoreArticles, cls \in Kinds : Build(cls, a[2])
    \/ \E kwargs \in StoreDrops : NewDrop(kwargs)
    \/ Insert
    \/ \E cls \in Kinds, r \in StoreReads : Get(cls, r[1], r[2], r[3])

Spec == Init /\ [][Next]_vars

\* the insert returned, and the rows of a record's table with an article id
Inserted(c) == c.op = "insert" /\ c.out.tag = "return"

HasRow(store, cls, id) ==
    \E i \in DOMAIN store[TableName(cls)] :
        store[TableName(cls)][i]["article_id"] = id

\* the foreign-key ids the store resolves from a name
ForeignKeys(cls) == IF cls = "Key" THEN {"item_id"} ELSE {}

\* C1: a record built by from_article and written with insert into a store
\* that has no row with its article id is read back by article_id as a
\* record of the same kind that has the same value, of the same type, on
\* every declared column of the kind's table, the foreign-key ids resolved
\* from a name excepted.
C1_RoundTrip ==
    (/\ Inserted(call)
     /\ call.via = "from_article"
     /\ ~HasRow(call.before, call.obj.cls, call.obj.attrs["article_id"]))
    => LET back == GetByField(db, call.obj.cls, "article_id",
                              call.obj.attrs["article_id"], FALSE)
       IN  /\ back # PyNone
           /\ back.cls = call.obj.cls
           /\ \A n \in ColumnNames(Columns(call.obj.cls)) \ ForeignKeys(call.obj.cls) :
                 /\ back.attrs[n].t = call.obj.attrs[n].t
                 /\ back.attrs[n] = call.obj.attrs[n]

\* the item "Fs" with stackable = yes is inserted: a Boolean column that is
\* stored as 1 and read back as True
C1_Witness ==
    /\ Inserted(call)
    /\ call.via = "from_article"
    /\ call.obj.cls = "Item"
    /\ call.obj.attrs["stackable"] = PyBool(TRUE)
    /\ db["item"][Len(db["item"])]["stackable"] = PyInt(1)

\* the dependents a parent owns, and the lookup of the dependents by its id
Owned(o) ==
    GetAttr(o, IF o.cls = "Creature" THEN "loot" ELSE "attributes", PyList(<<>>)).v

DependentsOf(store, o) ==
    IF o.cls = "Creature"
    THEN CreatureDropGetAllByField(store, "creature_id", o.attrs["article_id"], FALSE)
    ELSE ItemAttributeGetAllByField(store, "item_id", o.attrs["article_id"], FALSE)

\* C4: from a store without dependent rows for the parent's id, the insert
\* of a parent (a Creature with loot, an Item with attributes) that owns N
\* dependents, N >= 0, followed by the lookup of the dependents by the
\* parent's id, returns exactly N dependents.
C4_Cascade ==
    (/\ Inserted(call)
     /\ call.obj.cls \in {"Creature", "Item"}
     /\ DependentsOf(call.before, call.obj) = <<>>)
    => Len(DependentsOf(db, call.obj)) = Len(Owned(call.obj))

\* the creature with two loot items, one of them naming no stored item
C4_Witness ==
    /\ Inserted(call)
    /\ call.obj.cls = "Creature"
    /\ Len(Owned(call.obj)) = 2
    /\ call.before["item"] = <<>>
    /\ Len(DependentsOf(db, call.obj)) = 2

\* the rows of the item table with a title
TitledItems(store, title) ==
    LET Titled(r) == r["title"] = title
    IN  SelectSeq(store["item"], Titled)

\* the insert wrote one drop row, of the drop's creature and of item_id id,
\* and nothing else
WroteOneDrop(c, store, id) ==
    /\ c.out.tag = "return"
    /\ Len(store["creature_drop"]) = Len(c.before["creature_drop"]) + 1
    /\ [store EXCEPT !["creature_drop"] = SubSeq(@, 1, Len(@) - 1)] = c.before
    /\ store["creature_drop"][Len(store["creature_drop"])]["item_id"] = id
    /\ store["creature_drop"][Len(store["creature_drop"])]["creature_id"]
          = c.obj.attrs["creature_id"]

\* C5: the insert of a CreatureDrop without item_id, into a store that has
\* room for a row, does not raise and writes exactly one drop row: with a
\* null item_id when no row of the item table has the drop's item_name as
\* title, with that item's article_id when exactly one row has.
C5_NameResolution ==
    (/\ call.op = "insert"
     /\ call.obj.cls = "CreatureDrop"
     /\ ~Truthy(call.obj.attrs["item_id"])
     /\ ~Full(call.before))
    => /\ TitledItems(call.before, call.obj.attrs["item_name"]) = <<>>
          => WroteOneDrop(call, db, PyNone)
       /\ Len(TitledItems(call.before, call.obj.attrs["item_name"])) = 1
          => WroteOneDrop(call, db,
                 TitledItems(call.before, call.obj.attrs["item_name"])[1]["article_id"])

\* the drop of "Fs" is inserted when the item table holds a row, of another
\* title: the drop row has a null item_id
C5_Witness ==
    /\ call.op = "insert"
    /\ call.obj.cls = "CreatureDrop"
    /\ call.obj.attrs["item_name"] = PyStr(<<"F", "s">>)
    /\ Len(call.before["item"]) = 1
    /\ TitledItems(call.before, call.obj.attrs["item_name"]) = <<>>
    /\ db["creature_drop"][Len(db["creature_drop"])]["item_id"] = PyNone

\* sub occurs in text, letters compared without case
Contains(text, sub) ==
    \E i \in 1..(Len(text) - Len(sub) + 1) :
        Lower(SubSeq(text, i, i + Len(sub) - 1)) = Lower(sub)

HasWildcard(s) == \E i \in DOMAIN s : s[i] \in {"%", "_"}

\* a read of a text in partial mode, and the texts stored in its field
LikeRead(c) == c.op = "get_by_field" /\ c.use_like /\ c.value.t = "str"

StoredTexts(store, c) ==
    {store[TableName(c.cls)][i][c.field].v :
       i \in {j \in DOMAIN store[TableName(c.cls)] :
                store[TableName(c.cls)][j][c.field].t = "str"}}

\* C9, as stated: a read in partial mode returns a record when a stored
\* value of the field contains the searched value as a substring, compared
\* without case.
C9_Substring ==
    (LikeRead(call) /\ \E v \in StoredTexts(db, call) : Contains(v, call.value.v))
    => call.out.val # PyNone

\* C9, amended: a read in partial mode with a searched value that has no
\* LIKE wildcard returns a record exactly when a stored value of the field
\* equals the searched value compared without case; a part of the stored
\* value finds the record when the caller writes the wildcards ("%d%").
C9_WholeValue ==
    LikeRead(call) =>
        /\ ~HasWildcard(call.value.v)
           => (call.out.val # PyNone
               <=> \E v \in StoredTexts(db, call) : Lower(v) = Lower(call.value.v))
        /\ call.value.v = <<"%", "d", "%">>
           => (call.out.val # PyNone
               <=> \E v \in StoredTexts(db, call) : Contains(v, <<"d">>))

\* the read of name "de" in partial mode finds the creature named "De"
C9_Witness ==
    /\ LikeRead(call)
    /\ call.value.v = <<"d", "e">>
    /\ call.out.val # PyNone
    /\ call.out.val.attrs["name"] = PyStr(<<"D", "e">>)

\* C10: a read by field returns None when no stored row matches the field
\* and value, and one record of the queried kind, made of a matching row,
\* when one or more rows match, after any sequence of inserts.
C10_AtMostOne ==
    call.op = "get_by_field" =>
        IF Where(db[TableName(call.cls)], call.field, call.value, call.use_like) = <<>>
        THEN call.out = Returned(PyNone)
        ELSE /\ call.out.tag = "return"
             /\ call.out.val.t = "obj"
             /\ call.out.val.cls = call.cls
             /\ \E i \in DOMAIN Where(db[TableName(call.cls)], call.field,
                                       call.value, call.use_like) :
                   Where(db[TableName(call.cls)], call.field, call.value,
                         call.use_like)[i]["article_id"]
                     = call.out.val.attrs["article_id"]

\* two creatures named "De" are stored and the read by name returns one
C10_Witness ==
    /\ call.op = "get_by_field"
    /\ call.cls = "Creature"
    /\ call.field = "name"
    /\ Len(Where(db["creature"], call.field, call.value, call.use_like)) = 2
    /\ call.out.val.t = "obj"

\* the columns from_article sets in the row it builds: the three of the
\* article and the column of every tokenized key of the mapping table
SetByArticle(cls, article) ==
    {"article_id", "timestamp", "title"}
    \cup {MapOf(cls)[kv[1][1]][1] :
            kv \in {parse_attributes(article.content)[i] :
                      i \in {j \in DOMAIN parse_attributes(article.content) :
                               InMap(cls, parse_attributes(article.content)[j][1])}}}

\* the declared default of column n came back for it
CameBackDefault(back, cls, n) ==
    /\ back.attrs[n].t = ColumnNamed(Columns(cls), n).default.t
    /\ back.attrs[n] = ColumnNamed(Columns(cls), n).default

\* C11: after a record built by from_article is inserted into a store
\* without its article id and read back by article_id, every declared column
\* that the construction never set has the declared default of the column,
\* Boolean columns with a null default included (the foreign-key ids the
\* store resolves from a name excepted).
C11_DefaultOnRead ==
    \A a \in StoreArticles :
        (/\ Inserted(call)
         /\ call.via = "from_article"
         /\ call.obj.cls = a[1]
         /\ call.obj.attrs["article_id"] = a[2].article_id
         /\ ~HasRow(call.before, call.obj.cls, call.obj.attrs["article_id"]))
        => \A n \in (ColumnNames(Columns(a[1])) \ SetByArticle(a[1], a[2]))
                    \ ForeignKeys(a[1]) :
              CameBackDefault(GetByField(db, a[1], "article_id",
                                         a[2].article_id, FALSE), a[1], n)

\* the columns of a table that are not Boolean with a null default
PlainColumns(cls) ==
    {n \in ColumnNames(Columns(cls)) :
       ~(/\ ColumnNamed(Columns(cls), n).type = "Boolean"
         /\ ColumnNamed(Columns(cls), n).default = PyNone)}

\* C11 without the Boolean columns of null default: the part that holds
C11_PlainDefaultOnRead ==
    \A a \in StoreArticles :
        (/\ Inserted(call)
         /\ call.via = "from_article"
         /\ call.obj.cls = a[1]
         /\ call.obj.attrs["article_id"] = a[2].article_id
         /\ ~HasRow(call.before, call.obj.cls, call.obj.attrs["article_id"]))
        => \A n \in ((ColumnNames(Columns(a[1])) \ SetByArticle(a[1], a[2]))
                     \ ForeignKeys(a[1])) \cap PlainColumns(a[1]) :
              CameBackDefault(GetByField(db, a[1], "article_id",
                                         a[2].article_id, FALSE), a[1], n)

\* an insert that runs Row.insert on the record: Creature and Item through
\* super().insert(c), Key and CreatureDrop when item_id is set
GenericInsert(c) ==
    /\ c.op = "insert"
    /\ \/ c.obj.cls \in {"Creature", "Item"}
       \/ c.obj.cls \in {"Key", "CreatureDrop"} /\ Truthy(c.obj.attrs["item_id"])

\* the value differs from the declared default of the column
DiffersFromDefault(o, cls, n) ==
    ~(/\ o.attrs[n].t = ColumnNamed(Columns(cls), n).default.t
      /\ o.attrs[n] = ColumnNamed(Columns(cls), n).default)

\* the row last appended to the table of cls
LastRow(store, cls) == store[TableName(cls)][Len(store[TableName(cls)])]

\* C12: the generic insert issues first one statement on the record's table
\* that names only declared columns, a declared column being named exactly
\* when the record's value for it differs from the declared default, with
\* the record's value bound to it; when the statement succeeds (no row has
\* the record's primary key and the store has room) the table has exactly
\* one row more.
C12_WrittenColumns ==
    GenericInsert(call) =>
        /\ call.stmts # <<>>
        /\ call.stmts[1].table = TableName(call.obj.cls)
        /\ DOMAIN call.stmts[1].cols \subseteq ColumnNames(Columns(call.obj.cls))
        /\ \A n \in ColumnNames(Columns(call.obj.cls)) :
              /\ n \in DOMAIN call.stmts[1].cols
                 <=> DiffersFromDefault(call.obj, call.obj.cls, n)
              /\ n \in DOMAIN call.stmts[1].cols
                 => call.stmts[1].cols[n] = call.obj.attrs[n]
        /\ (/\ ~Taken(call.before[TableName(call.obj.cls)], call.obj.cls,
                      call.obj.attrs)
            /\ ~Full(call.before))
           => Len(db[TableName(call.obj.cls)])
                = Len(call.before[TableName(call.obj.cls)]) + 1

\* the item "Fs" of article 3 is inserted: stackable, True, is written and so
\* is name; weight, at its default, and the list of attributes are not
C12_Witness ==
    /\ GenericInsert(call)
    /\ call.obj.cls = "Item"
    /\ call.obj.attrs["article_id"] = PyInt(3)
    /\ DOMAIN call.stmts[1].cols
         = {"article_id", "title", "timestamp", "name", "stackable"}
    /\ HasAttr(call.obj, "attributes")
    /\ LastRow(db, "Item")["stackable"] = PyInt(1)

\* the insert of a parent record: a Creature or an Item, with its dependents
ParentInsertCall(c) == c.op = "insert" /\ c.obj.cls \in {"Creature", "Item"}

\* the table of the dependents of a parent kind
DependentTable(cls) == IF cls = "Creature" THEN "creature_drop" ELSE "item_attribute"

\* C13: the insert of a parent record is atomic: when it raises, at the
\* parent's statement or at the statement of a dependent, the store is as it
\* was before the insert, with neither the parent row nor a dependent row of
\* the record; when it returns, the parent row and all the dependent rows
\* are in the store.
C13_Atomic ==
    ParentInsertCall(call) =>
        IF call.out.tag = "raise"
        THEN db = call.before
        ELSE /\ Len(db[TableName(call.obj.cls)])
                  = Len(call.before[TableName(call.obj.cls)]) + 1
             /\ Len(db[DependentTable(call.obj.cls)])
                  = Len(call.before[DependentTable(call.obj.cls)])
                    + Len(Owned(call.obj))

\* C13, the half that holds: an insert of a parent record that returns has
\* written the parent row and every dependent row, and an insert whose first
\* statement raises has written nothing.
C13_AllOrParentFailed ==
    ParentInsertCall(call) =>
        /\ call.out.tag = "return"
           => /\ Len(db[TableName(call.obj.cls)])
                   = Len(call.before[TableName(call.obj.cls)]) + 1
              /\ Len(db[DependentTable(call.obj.cls)])
                   = Len(call.before[DependentTable(call.obj.cls)])
                     + Len(Owned(call.obj))
        /\ (call.out.tag = "raise" /\ Len(call.stmts) = 1) => db = call.before

\* the creature of article 1 is inserted into a store with room for one row:
\* the statement of its first drop raises and the creature row stays
C13_PartialInsert ==
    /\ ParentInsertCall(call)
    /\ call.obj.cls = "Creature"
    /\ call.out = Raised("OperationalError")
    /\ Len(call.stmts) = 2
    /\ Len(db["creature"]) = Len(call.before["creature"]) + 1
    /\ Len(db["creature_drop"]) = Len(call.before["creature_drop"])

\* the brackets of a text, and the end of its first top-level block: the
\* first position where as many brackets are closed as were opened
IsOpener(u) == u \in {"{", "["}
IsCloser(u) == u \in {"}", "]"}

Balanced(text, i) ==
    /\ Len(SelectSeq(SubSeq(text, 1, i), IsOpener)) > 0
    /\ Len(SelectSeq(SubSeq(text, 1, i), IsOpener))
         = Len(SelectSeq(SubSeq(text, 1, i), IsCloser))

HasFirstBlock(text) == \E i \in DOMAIN text : Balanced(text, i)

FirstBlockEnd(text) ==
    CHOOSE i \in DOMAIN text : Balanced(text, i) /\ \A j \in 1..(i - 1) : ~Balanced(text, j)

\* the text is a top-level block followed by a second, separate block
TwoBlocks(text) ==
    /\ HasFirstBlock(text)
    /\ IsOpener(text[1])
    /\ \E j \in (FirstBlockEnd(text) + 1)..Len(text) : IsOpener(text[j])

\* C14: for a text that holds the infobox block followed by a second,
\* separate top-level template block, parse_attributes returns the map of the
\* infobox block: the pairs of the second block and the text between the
\* blocks add nothing to it.
C14_OneOccurrence ==
    (/\ call.op = "from_article"
     /\ call.article # NoArticle
     /\ TwoBlocks(call.article.content))
    => parse_attributes(call.article.content)
         = parse_attributes(SubSeq(call.article.content, 1,
                                   FirstBlockEnd(call.article.content)))

\* "{{Infobox Creature}} text {{Navbox|name=Demon}}": the pair of the second
\* block is returned, and nothing of the first block is
C14_SecondBlockPair ==
    /\ call.op = "from_article"
    /\ call.article # NoArticle
    /\ TwoBlocks(call.article.content)
    /\ parse_attributes(SubSeq(call.article.content, 1,
                               FirstBlockEnd(call.article.content))) = EmptyDict
    /\ parse_attributes(call.article.content) = << <<<<"name">>, <<"Demon">>>> >>

\* the positions of a text where an occurrence "|{{Loot Item|" starts, and
\* the j-th of them
LootPositions(x) ==
    {p \in 1..(Len(x) - Len(LootPrefix)) : SubSeq(x, p, p + Len(LootPrefix) - 1) = LootPrefix}

NthPosition(x, j) ==
    CHOOSE p \in LootPositions(x) : Cardinality({q \in LootPositions(x) : q < p}) = j - 1

\* the occurrence at p has an amount: a range followed by "|"
HasAmountAt(x, p) ==
    /\ p + Len(LootPrefix) + 1 <= Len(x)
    /\ x[p + Len(LootPrefix)] \in {"1-3", "0-2"}
    /\ x[p + Len(LootPrefix) + 1] = "|"

RangeAt(x, p) ==
    IF ~HasAmountAt(x, p) THEN <<0, 1>>
    ELSE IF x[p + Len(LootPrefix)] = "1-3" THEN <<1, 3>> ELSE <<0, 2>>

\* the item name of the occurrence at p: the text up to the next "}" or "|"
NameStartAt(x, p) ==
    IF HasAmountAt(x, p) THEN p + Len(LootPrefix) + 2 ELSE p + Len(LootPrefix)

NameAt(x, p) ==
    SubSeq(x, NameStartAt(x, p),
           (CHOOSE k \in NameStartAt(x, p)..Len(x) :
              /\ x[k] \in {"}", "|"}
              /\ \A i \in NameStartAt(x, p)..(k - 1) : x[i] \notin {"}", "|"}) - 1)

\* the raw loot attribute of the article of a call
RawLoot(c) == DictGet(parse_attributes(c.article.content), <<"loot">>)

\* C16: a Creature built from an article with a raw "loot" attribute has one
\* CreatureDrop per occurrence of "|{{Loot Item|" in it, in the order of the
\* occurrences: creature_id is the creature's article_id, item_name is the
\* item name of the occurrence, min and max are a and b for an amount "a-b"
\* and 0 and 1 for an occurrence without an amount.
C16_LootExtraction ==
    (/\ ReturnedRecord(call)
     /\ call.cls = "Creature"
     /\ <<"loot">> \in DictKeys(parse_attributes(call.article.content)))
    => /\ HasAttr(call.out.val, "loot")
       /\ Len(call.out.val.attrs["loot"].v) = Cardinality(LootPositions(RawLoot(call)))
       /\ \A j \in DOMAIN call.out.val.attrs["loot"].v :
             /\ call.out.val.attrs["loot"].v[j].cls = "CreatureDrop"
             /\ call.out.val.attrs["loot"].v[j].attrs["creature_id"]
                   = call.out.val.attrs["article_id"]
             /\ call.out.val.attrs["loot"].v[j].attrs["item_name"]
                   = PyStr(NameAt(RawLoot(call), NthPosition(RawLoot(call), j)))
             /\ call.out.val.attrs["loot"].v[j].attrs["min"]
                   = PyInt(RangeAt(RawLoot(call), NthPosition(RawLoot(call), j))[1])
             /\ call.out.val.attrs["loot"].v[j].attrs["max"]
                   = PyInt(RangeAt(RawLoot(call), NthPosition(RawLoot(call), j))[2])

\* the Demon example: name Demon, hitpoints 1000, armor 15, paralysable
\* False and one drop of 1 to 3 "Fire Sword"
C16_Witness ==
    /\ ReturnedRecord(call)
    /\ call.cls = "Creature"
    /\ call.article.content = RecDemon
    /\ call.out.val.attrs["name"] = PyStr(<<"Demon">>)
    /\ call.out.val.attrs["hitpoints"] = PyInt(1000)
    /\ call.out.val.attrs["armor"] = PyInt(15)
    /\ call.out.val.attrs["paralysable"] = PyBool(FALSE)
    /\ Len(call.out.val.attrs["loot"].v) = 1
    /\ call.out.val.attrs["loot"].v[1].attrs["min"] = PyInt(1)
    /\ call.out.val.attrs["loot"].v[1].attrs["max"] = PyInt(3)
    /\ call.out.val.attrs["loot"].v[1].attrs["item_name"] = PyStr(<<"Fire", " ", "Sword">>)

\* a creature with two loot items, the first without an amount
C16_TwoDrops ==
    /\ ReturnedRecord(call)
    /\ call.cls = "Creature"
    /\ HasAttr(call.out.val, "loot")
    /\ Len(call.out.val.attrs["loot"].v) = 2
    /\ call.out.val.attrs["loot"].v[1].attrs["item_name"] = PyStr(<<"Gold">>)
    /\ call.out.val.attrs["loot"].v[1].attrs["max"] = PyInt(1)
    /\ call.out.val.attrs["loot"].v[2].attrs["max"] = PyInt(2)

\* the statement is the insert of the dependent record child
StatementOf(stmt, child) ==
    /\ stmt.table = TableName(child.cls)
    /\ IF child.cls = "CreatureDrop"
       THEN /\ stmt.cols["creature_id"] = child.attrs["creature_id"]
            /\ stmt.cols["min"] = child.attrs["min"]
            /\ stmt.cols["max"] = child.attrs["max"]
       ELSE /\ stmt.cols["item_id"] = child.attrs["item_id"]
            /\ stmt.cols["name"] = child.attrs["name"]
            /\ stmt.cols["value"] = child.attrs["value"]

\* the statement of the parent row cannot succeed in the store
ParentFails(store, o) ==
    Taken(store[TableName(o.cls)], o.cls, o.attrs) \/ Full(store)

\* C17: the insert of a parent record issues the statement of the parent row
\* first and then the statements of its dependents, one each, in the order
\* of the collection; every dependent has its statement when the insert
\* returns, and no statement follows the parent's when the parent's raises.
C17_InsertOrder ==
    ParentInsertCall(call) =>
        /\ call.stmts # <<>>
        /\ call.stmts[1].table = TableName(call.obj.cls)
        /\ call.stmts[1].cols["article_id"] = call.obj.attrs["article_id"]
        /\ Len(call.stmts) <= 1 + Len(Owned(call.obj))
        /\ \A j \in 2..Len(call.stmts) :
              StatementOf(call.stmts[j], Owned(call.obj)[j - 1])
        /\ call.out.tag = "return" => Len(call.stmts) = 1 + Len(Owned(call.obj))
        /\ ParentFails(call.before, call.obj)
           => call.out.tag = "raise" /\ Len(call.stmts) = 1

\* the creature of article 1 is inserted: the creature row, then the drop of
\* 1 to 3 "Fs", then the drop of "Z"
C17_Witness ==
    /\ ParentInsertCall(call)
    /\ call.out.tag = "return"
    /\ Len(call.stmts) = 3
    /\ call.stmts[1].table = "creature"
    /\ call.stmts[2].table = "creature_drop"
    /\ call.stmts[2].cols["max"] = PyInt(3)
    /\ call.stmts[3].table = "creature_drop"
    /\ call.stmts[3].cols["max"] = PyInt(1)

\* the creature of article 1 is inserted twice: the second insert issues the
\* statement of the creature row, which raises, and no statement of a drop
C17_ParentRaised ==
    /\ ParentInsertCall(call)
    /\ Len(Owned(call.obj)) = 2
    /\ call.out = Raised("IntegrityError")
    /\ Len(call.stmts) = 1

\* the insert of a Key without item_id into a store that can take its row
KeyInsertCall(c) ==
    /\ c.op = "insert"
    /\ c.obj.cls = "Key"
    /\ ~Truthy(c.obj.attrs["item_id"])
    /\ ~ParentFails(c.before, c.obj)

\* the item_id the store resolves for a key: the article_id of the item
\* titled "<material> Key", null when there is none or no material
ResolvedItem(store, key) ==
    IF key.attrs["material"].t # "str" THEN PyNone
    ELSE IF TitledItems(store, PyStr(key.attrs["material"].v \o <<" ", "Key">>)) = <<>>
    THEN PyNone
    ELSE TitledItems(store, PyStr(key.attrs["material"].v \o <<" ", "Key">>))[1]["article_id"]

\* the insert wrote one key row, with the resolved item_id, and nothing else
WroteOneKey(c, store) ==
    /\ c.out.tag = "return"
    /\ Len(store["item_key"]) = Len(c.before["item_key"]) + 1
    /\ [store EXCEPT !["item_key"] = SubSeq(@, 1, Len(@) - 1)] = c.before
    /\ LastRow(store, "Key")["article_id"] = c.obj.attrs["article_id"]
    /\ LastRow(store, "Key")["item_id"] = ResolvedItem(c.before, c.obj)

\* C18: the insert of a Key without item_id, with or without a material,
\* does not raise and writes exactly one key row, whose item_id is the
\* article_id of the item titled "<material> Key" or null when there is no
\* such item.
C18_KeyResolution ==
    KeyInsertCall(call) => WroteOneKey(call, db)

\* C18 for the keys that have a material: the part that holds
C18_KeyWithMaterial ==
    (KeyInsertCall(call) /\ call.obj.attrs["material"].t = "str")
    => WroteOneKey(call, db)

\* the key of article 6, built without primarytype, is inserted: the insert
\* raises TypeError and writes no row
C18_NoMaterial ==
    /\ call.op = "insert"
    /\ call.obj.cls = "Key"
    /\ call.obj.attrs["material"] = PyNone
    /\ call.out = Raised("TypeError")
    /\ call.stmts = <<>>
    /\ db = call.before

\* the key of article 5, of material "Fs", is inserted after the item titled
\* "Fs Key": its row has the item's article_id
C18_Resolved ==
    /\ KeyInsertCall(call)
    /\ call.obj.attrs["material"] = PyStr(<<"F", "s">>)
    /\ call.out.tag = "return"
    /\ LastRow(db, "Key")["item_id"] = PyInt(7)

\* from_article is called, for a kind with dependents, on an article that
\* has the marker of the kind and only keys of the kind's mapping table
AllMapped(c) ==
    /\ c.op = "from_article"
    /\ c.cls \in {"Creature", "Item"}
    /\ c.article # NoArticle
    /\ PatternSearch(c.cls, c.article.content)
    /\ \A i \in DOMAIN parse_attributes(c.article.content) :
          InMap(c.cls, parse_attributes(c.article.content)[i][1])

\* C19: for an article with the marker whose tokenized keys are all in the
\* mapping table, Creature.from_article and Item.from_article do not raise:
\* they return a record whose raw_attributes is readable and is the empty
\* mapping, without loot and with an empty list of attributes.
C19_EmptyOverflow ==
    AllMapped(call) =>
        /\ call.out.tag = "return"
        /\ call.out.val # PyNone
        /\ call.out.val.cls = call.cls
        /\ HasAttr(call.out.val, "raw_attributes")
        /\ call.out.val.attrs["raw_attributes"] = PyDict(EmptyDict)
        /\ call.cls = "Creature" => Owned(call.out.val) = <<>>
        /\ call.cls = "Item" => call.out.val.attrs["attributes"] = PyList(<<>>)

\* Creature.from_article on "{{Infobox Creature|name=Demon|hp=1000}}" raises
\* AttributeError
C19_Raised ==
    /\ AllMapped(call)
    /\ call.cls = "Creature"
    /\ DictKeys(parse_attributes(call.article.content)) = {<<"name">>, <<"hp">>}
    /\ call.out = Raised("AttributeError")

(***************************************************************************)
(* fetch_spells.  The module-level list spells holds the titles that       *)
(* fetch_spells_list collected; titles are written as the numbers 1..n in  *)
(* list order.  fetch holds the list, the loop's counter i, the titles of  *)
(* every request issued so far, and where the function is: in the loop,    *)
(* returned ("done") or left by an exception ("raised").  The rows written *)
(* for the pages of an answer are not part of this specification: that     *)
(* code reads neither i nor spells.                                        *)
(***************************************************************************)
MaxSpells == 101

\* the number of titles of one request, and the step of the counter
BatchSize == 50

Min(a, b) == IF a < b THEN a ELSE b

\* list[lo:hi] for 0 <= lo and hi <= len(list)
Slice(list, lo, hi) == IF lo >= hi THEN <<>> ELSE SubSeq(list, lo + 1, hi)

\* the titles parameter of the request issued with the counter at i
Titles(list, i) == Slice(list, i, Min(i + BatchSize, Len(list)))

\* data["query"]["pages"] for the answer to a request: the service answers a
\* request that names titles with their pages; what it answers to a request
\* that names no title is not in this code's hands, and the answer has the
\* key "query" (TRUE) or lacks it (FALSE, a KeyError)
Answers(titles) == IF titles # <<>> THEN {TRUE} ELSE {TRUE, FALSE}

FetchInit ==
    /\ content = <<>>
    /\ scan = ScanStart
    /\ db = EmptyStore
    /\ call = NoCall
    /\ inserts = 0
    /\ \E n \in 0..MaxSpells :
          fetch = [pc |-> "loop", spells |-> [k \in 1..n |-> k], i |-> 0,
                   requests |-> <<>>]

\* one pass of the loop body: the request for spells[i:min(i + 50, len)] and
\* the step of the counter
FetchBatch ==
    /\ fetch.pc = "loop"
    /\ ~(fetch.i > Len(fetch.spells))
    /\ \E query \in Answers(Titles(fetch.spells, fetch.i)) :
          fetch' = [fetch EXCEPT
                      !.requests = Append(@, Titles(fetch.spells, fetch.i)),
                      !.i = IF query THEN @ + BatchSize ELSE @,
                      !.pc = IF query THEN "loop" ELSE "raised"]
    /\ UNCHANGED <<content, scan, db, call, inserts>>

\* the loop's exit
FetchBreak ==
    /\ fetch.pc = "loop"
    /\ fetch.i > Len(fetch.spells)
    /\ fetch' = [fetch EXCEPT !.pc = "done"]
    /\ UNCHANGED <<content, scan, db, call, inserts>>

FetchNext == FetchBatch \/ FetchBreak

SpecFetch == FetchInit /\ [][FetchNext]_vars

\* the loop runs on its own thread of control and is never suspended
SpecFetchFair == SpecFetch /\ WF_vars(FetchNext)

\* the requests, one after the other, as one list of titles
RECURSIVE Carried(_)
Carried(reqs) ==
    IF reqs = <<>> THEN <<>> ELSE Head(reqs) \o Carried(Tail(reqs))

\* C22: for every length of the spells list, every request fetch_spells
\* issues carries between 1 and 50 titles, the batches are consecutive
\* disjoint slices of the list, and when fetch_spells has ended every spell
\* title has been carried by exactly one request; fetch_spells ends for
\* every length of the list (C22_Terminates).
C22_Batching ==
    /\ \A k \in DOMAIN fetch.requests :
          /\ Len(fetch.requests[k]) \in 1..BatchSize
          /\ fetch.requests[k]
               = Slice(fetch.spells, BatchSize * (k - 1),
                       Min(BatchSize * k, Len(fetch.spells)))
    /\ fetch.pc # "loop" => Carried(fetch.requests) = fetch.spells

\* the same without the lower limit of one title, and for a call that returns
C22_Slices ==
    /\ \A k \in DOMAIN fetch.requests :
          /\ Len(fetch.requests[k]) \in 0..BatchSize
          /\ fetch.requests[k]
               = Slice(fetch.spells, BatchSize * (k - 1),
                       Min(BatchSize * k, Len(fetch.spells)))
    /\ fetch.pc # "loop" => Carried(fetch.requests) = fetch.spells

\* fetch_spells ends, by returning or by an exception
C22_Terminates == <>(fetch.pc \in {"done", "raised"})

\* a list of 50 titles: the second request, issued with i = 50 = len(spells),
\* carries no title
C22_EmptyRequest ==
    /\ Len(fetch.spells) = BatchSize
    /\ Len(fetch.requests) = 2
    /\ Len(fetch.requests[1]) = BatchSize
    /\ fetch.requests[2] = <<>>

\* a list of 101 titles fetched in requests of 50, 50 and 1 titles
C22_ThreeBatches ==
    /\ Len(fetch.spells) = 2 * BatchSize + 1
    /\ fetch.pc = "done"
    /\ Len(fetch.requests) = 3
    /\ Len(fetch.requests[3]) = 1

====
